---------------------------- MODULE Spec2Model ----------------------------
(***************************************************************************)
(* Model of the comment / vote / notification backend in src/server.js.    *)
(* The file holds two variants of the server:                              *)
(*   - the flat-file variant (lines 1-659): in-memory arrays, synchronous  *)
(*     handlers, additive vote counters;                                   *)
(*   - the Firestore variant (lines 660-1424): collections behind awaits,  *)
(*     one vote document per cast.                                         *)
(* Firestore handlers are split at their awaits: one action per store     *)
(* operation together with the synchronous code that follows it.  The      *)
(* flat-file handlers contain no await and are one action each.            *)
(***************************************************************************)
EXTENDS Integers, Sequences, FiniteSets, TLC

(***************************************************************************)
(* Bounds of the model.                                                    *)
(***************************************************************************)
MaxComments == 3      \* comment documents ever created
MaxOps      == 4      \* HTTP requests ever accepted
MaxReqs     == 2      \* requests in flight at once
MaxTextLen  == 4      \* characters in a comment text
MaxDigit    == 3      \* largest digit of a page / limit query string
MaxQueryLen == 2      \* digits in a page / limit query string
MaxLoopComments == 1  \* comments created when only the mention loop is followed
MaxTotal    == 7      \* comments of one topic when only pagination is computed

(***************************************************************************)
(* Fixed universe: registered users, topics, characters.                   *)
(***************************************************************************)
Users    == {"u1", "u2"}
Username == [u \in Users |-> IF u = "u1" THEN <<"a">> ELSE <<"b">>]
Topics   == {"t1", "t2"}
Alphabet == {"@", "a", "b", "B", " "}

\* parentId || null : the falsy parent of a root comment
NoParent == 0

CommentIds == 1..MaxComments
Reqs       == 1..MaxReqs

VARIABLES
    comments,       \* Firestore `comments`: doc id -> fields
    votes,          \* Firestore `votes`: doc id -> [commentId, userId, voteType]
    notifications,  \* Firestore `notifications`: doc id -> fields
    nextId,         \* Firestore auto-generated ids: next fresh id per collection
    clock,          \* new Date(): server time, one tick per comment created
    lineage,        \* history: the parentId of every comment document ever added
    reqs,           \* requests in flight: slot -> locals and position
    started,        \* number of HTTP requests accepted so far
    resp,           \* the last HTTP response sent (res.json)
    listing,        \* locals of the last GET /api/comments
    args,           \* arguments handed to a helper function called on its own
    conn,           \* socket -> "new", "open" (connected) or "closed"
    rooms,          \* socket -> rooms joined (socket.join)
    received,       \* socket -> events delivered to it, in order
    emitted,        \* io.emit calls so far, and the events of the last step that emitted
    fcomments,      \* flat-file `comments` array
    fnotifications, \* flat-file `notifications` array
    fsaved          \* flat-file data.json: the arrays last written by saveData

storeVars == <<comments, votes, notifications, nextId, clock, lineage>>
sockVars  == <<conn, rooms, received, emitted>>
fileVars  == <<fcomments, fnotifications, fsaved>>
httpVars  == <<reqs, started, resp, listing, args>>
vars == <<comments, votes, notifications, nextId, clock, lineage, reqs, started, resp, listing,
          args,
          conn, rooms, received, emitted, fcomments, fnotifications, fsaved>>

-----------------------------------------------------------------------------
(***************************************************************************)
(* Generic helpers.                                                        *)
(***************************************************************************)
Range(s) == {s[i] : i \in DOMAIN s}

Max(a, b) == IF a >= b THEN a ELSE b
Min(a, b) == IF a <= b THEN a ELSE b

\* all sequences over S of length lo..hi
SeqsOf(S, lo, hi) == UNION {[1..n -> S] : n \in lo..hi}

-----------------------------------------------------------------------------
(***************************************************************************)
(* MentionExtractor: /@(\w+)/g scanned with exec() until no match.         *)
(***************************************************************************)
\* \w restricted to the characters of Alphabet
IsWordChar(ch) == ch \in {"a", "b", "B"}

\* String.prototype.toLowerCase on one character of Alphabet
ToLowerChar(ch) == IF ch = "B" THEN "b" ELSE ch
toLowerCase(str) == [i \in DOMAIN str |-> ToLowerChar(str[i])]

\* index of the last character of the maximal run of word characters
\* that starts at position i (greedy \w+)
RECURSIVE WordEnd(_, _)
WordEnd(text, i) ==
    IF i + 1 <= Len(text) /\ IsWordChar(text[i + 1])
    THEN WordEnd(text, i + 1)
    ELSE i

RECURSIVE ScanMentions(_, _)
ScanMentions(text, i) ==
    IF i > Len(text) THEN <<>>
    ELSE IF text[i] = "@" /\ i + 1 <= Len(text) /\ IsWordChar(text[i + 1])
         THEN LET j == WordEnd(text, i + 1)
              IN  <<SubSeq(text, i + 1, j)>> \o ScanMentions(text, j + 1)
         ELSE ScanMentions(text, i + 1)

extractMentions(text) == ScanMentions(text, 1)

-----------------------------------------------------------------------------
(***************************************************************************)
(* BroadcastHub: socket.io.  io.emit(event, payload) sends to every        *)
(* connected socket of the namespace.                                      *)
(***************************************************************************)
Sockets == {"s1", "s2"}

Event(type, url, commentId, userId, up, down) ==
    [type |-> type, url |-> url, commentId |-> commentId, userId |-> userId,
     upvotes |-> up, downvotes |-> down]

NewCommentEv(url, id)     == Event("newComment", url, id, "-", 0, 0)
NotificationEv(u, id, url) == Event("notification", url, id, u, 0, 0)
CommentVotedEv(id, up, dn) == Event("commentVoted", "-", id, "-", up, dn)
CommentEditedEv(id)       == Event("commentEdited", "-", id, "-", 0, 0)
CommentDeletedEv(id)      == Event("commentDeleted", "-", id, "-", 0, 0)

\* the sockets currently connected
connected == {s \in Sockets : conn[s] = "open"}

\* a variant that reaches only the sockets that joined no room
EmitTargetsOutside(ev) == {s \in connected : rooms[s] = {}}

\* the sockets io.emit reaches
EmitTargets(ev) == connected

\* a variant that sends every event twice
ioEmitTwice(rcv, evs) ==
    [s \in Sockets |->
        IF s \in connected THEN rcv[s] \o evs \o evs ELSE rcv[s]]

\* io.emit of the events evs, in order, on top of the delivery log rcv
RECURSIVE ioEmit(_, _)
ioEmit(rcv, evs) ==
    IF evs = <<>> THEN rcv
    ELSE ioEmit([s \in Sockets |->
                    IF s \in EmitTargets(Head(evs))
                    THEN Append(rcv[s], Head(evs)) ELSE rcv[s]],
                Tail(evs))

\* the handler step calls io.emit for each of the events evs, in order
Publish(evs) ==
    /\ received' = ioEmit(received, evs)
    /\ emitted' = [count |-> emitted.count + Len(evs), events |-> evs,
                    threw |-> FALSE]

\* the handler step calls io.emit and the call throws: nothing is sent
PublishThrows ==
    /\ received' = received
    /\ emitted' = [count |-> emitted.count + 1, events |-> <<>>,
                    threw |-> TRUE]

\* io.on('connection'): every connection is a new socket with a fresh id
Connect(s) ==
    /\ conn[s] = "new"
    /\ conn' = [conn EXCEPT ![s] = "open"]
    /\ UNCHANGED <<rooms, received, emitted, storeVars, httpVars, fileVars>>

\* socket.on('joinRoom', url) : socket.join(url)
JoinRoom(s, url) ==
    /\ conn[s] = "open"
    /\ url \notin rooms[s]
    /\ rooms' = [rooms EXCEPT ![s] = @ \cup {url}]
    /\ UNCHANGED <<conn, received, emitted, storeVars, httpVars, fileVars>>

\* socket.on('disconnect'): socket.io drops the socket from all its rooms
Disconnect(s) ==
    /\ conn[s] = "open"
    /\ conn' = [conn EXCEPT ![s] = "closed"]
    /\ rooms' = [rooms EXCEPT ![s] = {}]
    /\ UNCHANGED <<received, emitted, storeVars, httpVars, fileVars>>

-----------------------------------------------------------------------------
(***************************************************************************)
(* HTTP responses and request slots.                                       *)
(***************************************************************************)
Response(n, op, status, user, id, body) ==
    [n |-> n, op |-> op, status |-> status, user |-> user, id |-> id,
     body |-> body]

NoResponse == Response(0, "none", 0, "-", 0, <<>>)

IdleReq == [pc |-> "idle", op |-> "none", n |-> 0, user |-> "-", id |-> 0,
            url |-> "-", voteType |-> "-", mentions |-> <<>>, at |-> 0,
            target |-> "-", snap |-> {}]

-----------------------------------------------------------------------------
(***************************************************************************)
(* Firestore collections: a collection is a function doc id -> fields.     *)
(***************************************************************************)
\* collection.add(fields) under the fresh id `id`
AddDoc(coll, id, fields) == coll @@ (id :> fields)

\* doc.ref.delete() for every id in `ids`
DeleteDocs(coll, ids) == [i \in (DOMAIN coll) \ ids |-> coll[i]]

\* usersCollection.where('username', '==', mention).get()
UsersByName(mention) == {u \in Users : Username[u] = mention}

\* the request texts: every string over Alphabet, the empty one included
Texts == SeqsOf(Alphabet, 0, MaxTextLen)

\* an identifier that names no comment document
DanglingId == MaxComments + 1

\* the editedAt of a document that has none
NotEdited == 0

-----------------------------------------------------------------------------
(***************************************************************************)
(* POST /api/comments, Firestore variant (lines 1119-1186).                *)
(***************************************************************************)
\* the tail of the handler once the mention loop is over:
\* io.emit('newComment'), res.status(201)
CreateFinish(r, n, u, url, id, evs) ==
    /\ Publish(Append(evs, NewCommentEv(url, id)))
    /\ resp' = Response(n, "create", 201, u, id, <<>>)
    /\ reqs' = [reqs EXCEPT ![r] = IdleReq]

\* request accepted; validation; commentsCollection.add; extractMentions
CreateStart(r, u, url, text, parentId) ==
    /\ reqs[r].pc = "idle"
    /\ started < MaxOps
    /\ started' = started + 1
    /\ UNCHANGED <<votes, notifications, listing, args, conn, rooms, fileVars>>
    /\ IF text = <<>>
       THEN /\ resp' = Response(started + 1, "create", 400, u, 0, <<>>)
            /\ UNCHANGED <<comments, nextId, clock, lineage, reqs, received, emitted>>
       ELSE /\ nextId.comment <= MaxComments
            /\ LET id == nextId.comment
                   mentions == extractMentions(text)
               IN  /\ comments' = AddDoc(comments, id,
                                     [url |-> url, parentId |-> parentId,
                                      authorId |-> u, timestamp |-> clock,
                                      editedAt |-> NotEdited])
                   /\ nextId' = [nextId EXCEPT !.comment = @ + 1]
                   /\ clock' = clock + 1
                   /\ lineage' = AddDoc(lineage, id, parentId)
                   /\ IF mentions = <<>>
                      THEN CreateFinish(r, started + 1, u, url, id, <<>>)
                      ELSE /\ reqs' = [reqs EXCEPT ![r] =
                                        [IdleReq EXCEPT !.pc = "resolve",
                                                        !.op = "create",
                                                        !.n = started + 1,
                                                        !.user = u,
                                                        !.id = id,
                                                        !.url = url,
                                                        !.mentions = mentions,
                                                        !.at = 1]]
                           /\ UNCHANGED <<resp, received, emitted>>

\* a variant without the test on the author
NotifiableSelf(hits, author) == hits # {}

\* !mentionedUserSnapshot.empty and mentionedUser.id !== req.user.id
Notifiable(hits, author) ==
    hits # {} /\ (CHOOSE u \in hits : TRUE) # author

\* one turn of the loop: usersCollection.where('username','==',mention).get()
\* and the two tests on its result
CreateResolve(r) ==
    /\ reqs[r].pc = "resolve"
    /\ LET q    == reqs[r]
           hits == UsersByName(q.mentions[q.at])
           last == q.at = Len(q.mentions)
       IN  IF Notifiable(hits, q.user)
           THEN /\ reqs' = [reqs EXCEPT ![r].pc = "notify",
                                        ![r].target = CHOOSE u \in hits : TRUE]
                /\ UNCHANGED <<resp, received, emitted>>
           ELSE IF last
                THEN CreateFinish(r, q.n, q.user, q.url, q.id, <<>>)
                ELSE /\ reqs' = [reqs EXCEPT ![r].at = q.at + 1]
                     /\ UNCHANGED <<resp, received, emitted>>
    /\ UNCHANGED <<storeVars, started, listing, args, conn, rooms, fileVars>>

\* notificationsCollection.add(notification); io.emit('notification')
CreateNotify(r) ==
    /\ reqs[r].pc = "notify"
    /\ LET q    == reqs[r]
           last == q.at = Len(q.mentions)
           ev   == NotificationEv(q.target, q.id, q.url)
       IN  /\ notifications' = AddDoc(notifications, nextId.notification,
                                      [userId |-> q.target, commentId |-> q.id,
                                       url |-> q.url, read |-> FALSE])
           /\ nextId' = [nextId EXCEPT !.notification = @ + 1]
           /\ IF last
              THEN CreateFinish(r, q.n, q.user, q.url, q.id, <<ev>>)
              ELSE /\ reqs' = [reqs EXCEPT ![r].pc = "resolve",
                                           ![r].at = q.at + 1,
                                           ![r].target = "-"]
                   /\ Publish(<<ev>>)
                   /\ UNCHANGED resp
    /\ UNCHANGED <<comments, votes, clock, lineage, started, listing, args,
                   conn, rooms, fileVars>>

\* commentsCollection.add(newComment) rejects: catch block, 500
CreateAddRejected(r, u, url, text) ==
    /\ reqs[r].pc = "idle"
    /\ started < MaxOps
    /\ text # <<>>
    /\ started' = started + 1
    /\ resp' = Response(started + 1, "create", 500, u, 0, <<>>)
    /\ UNCHANGED <<storeVars, reqs, listing, args, sockVars, fileVars>>

\* notificationsCollection.add(notification) rejects: catch block, 500; the
\* rest of the loop, io.emit('newComment') and res.status(201) are skipped
CreateNotifyRejected(r) ==
    /\ reqs[r].pc = "notify"
    /\ resp' = Response(reqs[r].n, "create", 500, reqs[r].user, reqs[r].id,
                        <<>>)
    /\ reqs' = [reqs EXCEPT ![r] = IdleReq]
    /\ UNCHANGED <<storeVars, started, listing, args, sockVars, fileVars>>

-----------------------------------------------------------------------------
(***************************************************************************)
(* VoteAggregator read side: getVotesForComment (lines 784-801).           *)
(***************************************************************************)
VoteRows(commentId, kind) ==
    {v \in DOMAIN votes : votes[v].commentId = commentId
                          /\ votes[v].voteType = kind}

\* a variant that counts every row of the comment as an upvote
getVotesAnyKind(commentId) ==
    [upvotes   |-> Cardinality({v \in DOMAIN votes :
                                   votes[v].commentId = commentId}),
     downvotes |-> 0]

getVotesForComment(commentId) ==
    [upvotes   |-> Cardinality(VoteRows(commentId, "up")),
     downvotes |-> Cardinality(VoteRows(commentId, "down"))]

-----------------------------------------------------------------------------
(***************************************************************************)
(* CommentTreeBuilder: buildCommentTree (lines 759-781, same as 108-130).  *)
(* commentMap holds one node per id; a node's replies and rootComments     *)
(* hold references to nodes, modelled as ids into commentMap.              *)
(***************************************************************************)
\* first forEach: commentMap.set(comment.id, { ...comment, replies: [] })
RECURSIVE MapPass(_, _, _)
MapPass(cs, i, commentMap) ==
    IF i > Len(cs) THEN commentMap
    ELSE MapPass(cs, i + 1,
                 [k \in (DOMAIN commentMap) \cup {cs[i].id} |->
                     IF k = cs[i].id
                     THEN [comment |-> cs[i], replies |-> <<>>]
                     ELSE commentMap[k]])

\* a variant that promotes a reply without a parent in the map to a root
AttachPromote(c, t) ==
    IF c.parentId # NoParent /\ c.parentId \in DOMAIN t.commentMap
    THEN [t EXCEPT !.commentMap[c.parentId].replies = Append(@, c.id)]
    ELSE [t EXCEPT !.rootComments = Append(@, c.id)]

\* a variant that pushes a reply onto a copy of the parent's node, so that
\* the push is lost
AttachLost(c, t) ==
    IF c.parentId # NoParent THEN t
    ELSE [t EXCEPT !.rootComments = Append(@, c.id)]

\* a variant that puts the node in front of its siblings
AttachFront(c, t) ==
    IF c.parentId # NoParent
    THEN IF c.parentId \in DOMAIN t.commentMap
         THEN [t EXCEPT !.commentMap[c.parentId].replies = <<c.id>> \o @]
         ELSE t
    ELSE [t EXCEPT !.rootComments = <<c.id>> \o @]

\* body of the second forEach
Attach(c, t) ==
    IF c.parentId # NoParent
    THEN IF c.parentId \in DOMAIN t.commentMap
         THEN [t EXCEPT !.commentMap[c.parentId].replies = Append(@, c.id)]
         ELSE t
    ELSE [t EXCEPT !.rootComments = Append(@, c.id)]

RECURSIVE TreePass(_, _, _)
TreePass(cs, i, t) ==
    IF i > Len(cs) THEN t
    ELSE TreePass(cs, i + 1, Attach(cs[i], t))

buildCommentTree(cs) ==
    TreePass(cs, 1, [commentMap   |-> MapPass(cs, 1, <<>>),
                     rootComments |-> <<>>])

\* a variant that cuts the nesting below the first level of replies
SerializeFlat(commentMap, id) ==
    commentMap[id].comment @@
    [replies |-> [k \in DOMAIN commentMap[id].replies |->
                     commentMap[commentMap[id].replies[k]].comment @@
                     [replies |-> <<>>]]]

\* the returned array as res.json serialises it: nodes nested in replies
RECURSIVE Serialize(_, _)
Serialize(commentMap, id) ==
    commentMap[id].comment @@
    [replies |-> [k \in DOMAIN commentMap[id].replies |->
                     Serialize(commentMap, commentMap[id].replies[k])]]

Forest(t) ==
    [k \in DOMAIN t.rootComments |-> Serialize(t.commentMap, t.rootComments[k])]

-----------------------------------------------------------------------------
(***************************************************************************)
(* GET /api/comments, Firestore variant (lines 1061-1117).                 *)
(***************************************************************************)
DigitChars == <<"0", "1", "2", "3", "4", "5", "6", "7", "8", "9">>
DigitValue(ch) == (CHOOSE i \in DOMAIN DigitChars : DigitChars[i] = ch) - 1

\* a query parameter that is not in the query string
QueryAbsent == <<>>
\* the query parameters sent: absent, or a string of decimal digits
QueryInputs ==
    {QueryAbsent} \cup SeqsOf({DigitChars[d + 1] : d \in 0..MaxDigit}, 1, MaxQueryLen)

\* parseInt of a string of decimal digits
RECURSIVE parseIntFrom(_, _, _)
parseIntFrom(str, i, acc) ==
    IF i > Len(str) THEN acc
    ELSE parseIntFrom(str, i + 1, acc * 10 + DigitValue(str[i]))
parseInt(str) == parseIntFrom(str, 1, 0)

\* const { page = 1, limit = 20 } = req.query
DefaultPage  == 1
DefaultLimit == 20
QueryNumber(q, dflt) == IF q = QueryAbsent THEN dflt ELSE parseInt(q)

\* the numbers a division can yield: finite, NaN or Infinity
Finite(n)  == [kind |-> "finite", value |-> n]
JsNaN      == [kind |-> "NaN", value |-> 0]
JsInfinity == [kind |-> "Infinity", value |-> 0]

\* a variant that rounds the quotient down
MathFloorDiv(a, b) ==
    IF b = 0 THEN (IF a = 0 THEN JsNaN ELSE JsInfinity)
    ELSE Finite(a \div b)

\* Math.ceil(a / b) on non-negative integers; a / 0 is NaN or Infinity
MathCeilDiv(a, b) ==
    IF b = 0 THEN (IF a = 0 THEN JsNaN ELSE JsInfinity)
    ELSE IF a % b = 0 THEN Finite(a \div b) ELSE Finite((a \div b) + 1)

\* x < y for an integer x, where y may be NaN or Infinity
JsLess(x, y) ==
    IF y.kind = "NaN" THEN FALSE
    ELSE IF y.kind = "Infinity" THEN TRUE
    ELSE x < y.value

\* Array.prototype.slice(start, end)
slice(arr, start, end) ==
    LET n    == Len(arr)
        from == IF start < 0 THEN Max(n + start, 0) ELSE Min(start, n)
        to   == IF end < 0 THEN Max(n + end, 0) ELSE Min(end, n)
    IN  IF from < to THEN SubSeq(arr, from + 1, to) ELSE <<>>

\* .where('url', '==', url).orderBy('timestamp', 'desc'), each document
\* as { id: doc.id, ...doc.data() }
Newest(ids) ==
    CHOOSE i \in ids : \A k \in ids :
        \/ comments[i].timestamp > comments[k].timestamp
        \/ comments[i].timestamp = comments[k].timestamp /\ i >= k

RECURSIVE OrderDesc(_)
OrderDesc(ids) ==
    IF ids = {} THEN <<>>
    ELSE LET i == Newest(ids)
         IN  <<[id |-> i] @@ comments[i]>> \o OrderDesc(ids \ {i})

CommentsOfUrl(url) ==
    OrderDesc({i \in DOMAIN comments : comments[i].url = url})

\* for (let comment of paginatedComments) { comment.upvotes = ...; ... }
WithVotes(cs) ==
    [k \in DOMAIN cs |-> cs[k] @@ getVotesForComment(cs[k].id)]

Pagination(pageNum, limitNum, totalComments) ==
    LET totalPages == MathCeilDiv(totalComments, limitNum)
    IN  [currentPage   |-> pageNum,
         totalPages    |-> totalPages,
         totalComments |-> totalComments,
         hasNextPage   |-> JsLess(pageNum, totalPages),
         hasPrevPage   |-> pageNum > 1]

GetComments(url, page, limit) ==
    /\ started < MaxOps
    /\ started' = started + 1
    /\ LET all        == CommentsOfUrl(url)
           pageNum    == QueryNumber(page, DefaultPage)
           limitNum   == QueryNumber(limit, DefaultLimit)
           startIndex == (pageNum - 1) * limitNum
           endIndex   == startIndex + limitNum
           paginated  == WithVotes(slice(all, startIndex, endIndex))
           tree       == buildCommentTree(paginated)
       IN  /\ listing' = [url |-> url, pageNum |-> pageNum,
                          limitNum |-> limitNum,
                          paginatedComments |-> paginated,
                          commentMap |-> tree.commentMap,
                          rootComments |-> tree.rootComments]
           /\ resp' = Response(started + 1, "list", 200, "-", 0,
                               [comments   |-> Forest(tree),
                                pagination |-> Pagination(pageNum, limitNum,
                                                          Len(all))])
    /\ UNCHANGED <<storeVars, reqs, args, sockVars, fileVars>>

NoListing == [url |-> "-", pageNum |-> 0, limitNum |-> 0,
              paginatedComments |-> <<>>, commentMap |-> <<>>,
              rootComments |-> <<>>]

-----------------------------------------------------------------------------
(***************************************************************************)
(* POST /api/comments/:id/vote, Firestore variant (lines 1189-1248).       *)
(***************************************************************************)
VoteTypes == {"up", "down", "remove"}

\* existingVoteSnapshot.docs[0]: the first document in document-id order
FirstDoc(snap) == CHOOSE v \in snap : \A w \in snap : v <= w

\* a variant in which the lookup always finds a document
CommentDocFound(id) == TRUE

\* (await commentsCollection.doc(id).get()).exists
CommentDocExists(id) == id \in DOMAIN comments

\* request accepted; commentsCollection.doc(id).get() and the 404 test
VoteStart(r, u, id, voteType) ==
    /\ reqs[r].pc = "idle"
    /\ started < MaxOps
    /\ started' = started + 1
    /\ IF voteType \notin VoteTypes
       THEN /\ resp' = Response(started + 1, "vote", 400, u, id, <<>>)
            /\ UNCHANGED reqs
       ELSE IF ~CommentDocExists(id)
       THEN /\ resp' = Response(started + 1, "vote", 404, u, id, <<>>)
            /\ UNCHANGED reqs
       ELSE /\ reqs' = [reqs EXCEPT ![r] =
                          [IdleReq EXCEPT !.pc = "voteQuery", !.op = "vote",
                                          !.n = started + 1, !.user = u,
                                          !.id = id, !.voteType = voteType]]
            /\ UNCHANGED resp
    /\ UNCHANGED <<storeVars, listing, args, sockVars, fileVars>>

\* votesCollection.where(commentId).where(userId).get()
VoteQuery(r) ==
    /\ reqs[r].pc = "voteQuery"
    /\ LET q    == reqs[r]
           snap == {v \in DOMAIN votes : /\ votes[v].commentId = q.id
                                         /\ votes[v].userId = q.user}
       IN  reqs' = [reqs EXCEPT ![r].snap = snap,
                                ![r].pc = IF q.voteType = "remove" /\ snap = {}
                                          THEN "voteTally" ELSE "voteWrite"]
    /\ UNCHANGED <<storeVars, started, resp, listing, args, sockVars, fileVars>>

\* docs[0].ref.delete(), docs[0].ref.update({voteType}) or
\* votesCollection.add(voteData); update() of a document that is gone throws
VoteWrite(r) ==
    /\ reqs[r].pc = "voteWrite"
    /\ LET q == reqs[r]
       IN  IF q.voteType = "remove"
           THEN /\ votes' = DeleteDocs(votes, {FirstDoc(q.snap)})
                /\ reqs' = [reqs EXCEPT ![r].pc = "voteTally"]
                /\ UNCHANGED <<nextId, resp>>
           ELSE IF q.snap # {}
           THEN IF FirstDoc(q.snap) \in DOMAIN votes
                THEN /\ votes' = [votes EXCEPT
                                    ![FirstDoc(q.snap)].voteType = q.voteType]
                     /\ reqs' = [reqs EXCEPT ![r].pc = "voteTally"]
                     /\ UNCHANGED <<nextId, resp>>
                ELSE /\ resp' = Response(q.n, "vote", 500, q.user, q.id, <<>>)
                     /\ reqs' = [reqs EXCEPT ![r] = IdleReq]
                     /\ UNCHANGED <<votes, nextId>>
           ELSE /\ votes' = AddDoc(votes, nextId.vote,
                                   [commentId |-> q.id, userId |-> q.user,
                                    voteType |-> q.voteType])
                /\ nextId' = [nextId EXCEPT !.vote = @ + 1]
                /\ reqs' = [reqs EXCEPT ![r].pc = "voteTally"]
                /\ UNCHANGED resp
    /\ UNCHANGED <<comments, notifications, clock, lineage, started, listing,
                   args, sockVars, fileVars>>

\* getVotesForComment(id); io.emit('commentVoted'); res.json
VoteTally(r) ==
    /\ reqs[r].pc = "voteTally"
    /\ LET q == reqs[r]
           t == getVotesForComment(q.id)
       IN  /\ Publish(<<CommentVotedEv(q.id, t.upvotes, t.downvotes)>>)
           /\ resp' = Response(q.n, "vote", 200, q.user, q.id,
                               [voteType |-> q.voteType,
                                upvotes |-> t.upvotes,
                                downvotes |-> t.downvotes])
           /\ reqs' = [reqs EXCEPT ![r] = IdleReq]
    /\ UNCHANGED <<storeVars, started, listing, args, conn, rooms,
                   fileVars>>

\* the delete, update or add of the vote document rejects: catch block, 500
VoteWriteRejected(r) ==
    /\ reqs[r].pc = "voteWrite"
    /\ resp' = Response(reqs[r].n, "vote", 500, reqs[r].user, reqs[r].id, <<>>)
    /\ reqs' = [reqs EXCEPT ![r] = IdleReq]
    /\ UNCHANGED <<storeVars, started, listing, args, sockVars, fileVars>>

\* getVotesForComment(id); io.emit('commentVoted') throws: catch block, 500
VoteTallyEmitThrows(r) ==
    /\ reqs[r].pc = "voteTally"
    /\ PublishThrows
    /\ resp' = Response(reqs[r].n, "vote", 500, reqs[r].user, reqs[r].id, <<>>)
    /\ reqs' = [reqs EXCEPT ![r] = IdleReq]
    /\ UNCHANGED <<storeVars, started, listing, args, conn, rooms, fileVars>>

\* the tally getVotesForComment returns from its catch block
ZeroTally == [upvotes |-> 0, downvotes |-> 0]

\* votesCollection.where('commentId','==',id).get() rejects inside
\* getVotesForComment: its catch block returns the zero tally, and the
\* handler goes on to io.emit('commentVoted') and res.json
VoteTallyReadRejected(r) ==
    /\ reqs[r].pc = "voteTally"
    /\ LET q == reqs[r]
           t == ZeroTally
       IN  /\ Publish(<<CommentVotedEv(q.id, t.upvotes, t.downvotes)>>)
           /\ resp' = Response(q.n, "vote", 200, q.user, q.id,
                               [voteType |-> q.voteType,
                                upvotes |-> t.upvotes,
                                downvotes |-> t.downvotes])
           /\ reqs' = [reqs EXCEPT ![r] = IdleReq]
    /\ UNCHANGED <<storeVars, started, listing, args, conn, rooms,
                   fileVars>>

-----------------------------------------------------------------------------
(***************************************************************************)
(* PUT /api/comments/:id, Firestore variant (lines 1250-1303).             *)
(***************************************************************************)
\* a variant in which every user passes the test
OwnsAny(u, id) == TRUE

\* comment.authorId === req.user.id
Owns(u, id) == comments[id].authorId = u

\* request accepted; validation; commentsCollection.doc(id).get(); 404, 403
EditStart(r, u, id, text) ==
    /\ reqs[r].pc = "idle"
    /\ started < MaxOps
    /\ started' = started + 1
    /\ IF text = <<>>
       THEN /\ resp' = Response(started + 1, "edit", 400, u, id, <<>>)
            /\ UNCHANGED reqs
       ELSE IF id \notin DOMAIN comments
       THEN /\ resp' = Response(started + 1, "edit", 404, u, id, <<>>)
            /\ UNCHANGED reqs
       ELSE IF ~Owns(u, id)
       THEN /\ resp' = Response(started + 1, "edit", 403, u, id, <<>>)
            /\ UNCHANGED reqs
       ELSE /\ reqs' = [reqs EXCEPT ![r] =
                          [IdleReq EXCEPT !.pc = "editUpdate", !.op = "edit",
                                          !.n = started + 1, !.user = u,
                                          !.id = id]]
            /\ UNCHANGED resp
    /\ UNCHANGED <<storeVars, listing, args, sockVars, fileVars>>

\* commentsCollection.doc(id).update({text, rawText, editedAt}), which
\* rejects when the document is gone; io.emit('commentEdited'); res.json
EditUpdate(r) ==
    /\ reqs[r].pc = "editUpdate"
    /\ LET q == reqs[r]
       IN  IF q.id \in DOMAIN comments
           THEN /\ comments' = [comments EXCEPT ![q.id].editedAt = clock]
                /\ clock' = clock + 1
                /\ Publish(<<CommentEditedEv(q.id)>>)
                /\ resp' = Response(q.n, "edit", 200, q.user, q.id, <<>>)
           ELSE /\ resp' = Response(q.n, "edit", 500, q.user, q.id, <<>>)
                /\ UNCHANGED <<comments, clock, received, emitted>>
    /\ reqs' = [reqs EXCEPT ![r] = IdleReq]
    /\ UNCHANGED <<votes, notifications, nextId, lineage, started, listing,
                   args, conn, rooms, fileVars>>

-----------------------------------------------------------------------------
(***************************************************************************)
(* DELETE /api/comments/:id, Firestore variant (lines 1306-1353).          *)
(***************************************************************************)
\* request accepted; commentsCollection.doc(id).get(); 404 and 403 tests
DeleteStart(r, u, id) ==
    /\ reqs[r].pc = "idle"
    /\ started < MaxOps
    /\ started' = started + 1
    /\ IF id \notin DOMAIN comments
       THEN /\ resp' = Response(started + 1, "delete", 404, u, id, <<>>)
            /\ UNCHANGED reqs
       ELSE IF ~Owns(u, id)
       THEN /\ resp' = Response(started + 1, "delete", 403, u, id, <<>>)
            /\ UNCHANGED reqs
       ELSE /\ reqs' = [reqs EXCEPT ![r] =
                          [IdleReq EXCEPT !.pc = "deleteDoc", !.op = "delete",
                                          !.n = started + 1, !.user = u,
                                          !.id = id]]
            /\ UNCHANGED resp
    /\ UNCHANGED <<storeVars, listing, args, sockVars, fileVars>>

\* commentsCollection.doc(id).delete()
DeleteDoc(r) ==
    /\ reqs[r].pc = "deleteDoc"
    /\ comments' = DeleteDocs(comments, {reqs[r].id})
    /\ reqs' = [reqs EXCEPT ![r].pc = "deleteQueryReplies"]
    /\ UNCHANGED <<votes, notifications, nextId, clock, lineage, started, resp,
                   listing, args, sockVars, fileVars>>

\* commentsCollection.where('parentId', '==', id).get()
DeleteQueryReplies(r) ==
    /\ reqs[r].pc = "deleteQueryReplies"
    /\ reqs' = [reqs EXCEPT
                  ![r].snap = {c \in DOMAIN comments :
                                 comments[c].parentId = reqs[r].id},
                  ![r].pc = "deleteReplies"]
    /\ UNCHANGED <<storeVars, started, resp, listing, args, sockVars, fileVars>>

\* Promise.all(repliesSnapshot.docs.map(doc => doc.ref.delete()))
DeleteReplies(r) ==
    /\ reqs[r].pc = "deleteReplies"
    /\ comments' = DeleteDocs(comments, reqs[r].snap)
    /\ reqs' = [reqs EXCEPT ![r].pc = "deleteQueryVotes", ![r].snap = {}]
    /\ UNCHANGED <<votes, notifications, nextId, clock, lineage, started, resp,
                   listing, args, sockVars, fileVars>>

\* votesCollection.where('commentId', '==', id).get()
DeleteQueryVotes(r) ==
    /\ reqs[r].pc = "deleteQueryVotes"
    /\ reqs' = [reqs EXCEPT
                  ![r].snap = {v \in DOMAIN votes :
                                 votes[v].commentId = reqs[r].id},
                  ![r].pc = "deleteVotes"]
    /\ UNCHANGED <<storeVars, started, resp, listing, args, sockVars, fileVars>>

\* Promise.all(voteDeletePromises); io.emit('commentDeleted'); res.json
DeleteVotes(r) ==
    /\ reqs[r].pc = "deleteVotes"
    /\ LET q == reqs[r]
       IN  /\ votes' = DeleteDocs(votes, q.snap)
           /\ Publish(<<CommentDeletedEv(q.id)>>)
           /\ resp' = Response(q.n, "delete", 200, q.user, q.id, <<>>)
           /\ reqs' = [reqs EXCEPT ![r] = IdleReq]
    /\ UNCHANGED <<comments, notifications, nextId, clock, lineage, started,
                   listing, args, conn, rooms, fileVars>>

-----------------------------------------------------------------------------
(***************************************************************************)
(* Flat-file variant (lines 1-659): the handlers contain no await, so each *)
(* runs to its response in one step.  Comment ids are Date.now().          *)
(***************************************************************************)
\* time passes between two requests
Tick ==
    /\ clock <= MaxComments
    /\ clock' = clock + 1
    /\ UNCHANGED <<comments, votes, notifications, nextId, lineage, httpVars,
                   sockVars, fileVars>>

\* users.find(u => u.username.toLowerCase() === mention.toLowerCase())
FileUsersByName(mention) ==
    {u \in Users : toLowerCase(Username[u]) = toLowerCase(mention)}

\* mentions.forEach: the notifications pushed and the events emitted
RECURSIVE FileMentionLoop(_, _, _, _, _)
FileMentionLoop(mentions, author, id, url, acc) ==
    IF mentions = <<>> THEN acc
    ELSE LET hits == FileUsersByName(Head(mentions))
             user == CHOOSE u \in hits : TRUE
         IN  IF hits # {} /\ user # author
             THEN FileMentionLoop(Tail(mentions), author, id, url,
                    [pushed |-> Append(acc.pushed,
                                  [userId |-> user, commentId |-> id,
                                   url |-> url, read |-> FALSE]),
                     events |-> Append(acc.events,
                                  NotificationEv(user, id, url))])
             ELSE FileMentionLoop(Tail(mentions), author, id, url, acc)

\* saveData(): fs.writeFileSync of the arrays; when the write throws, the
\* catch block logs the error and the file keeps its content
saveData(written, cs, ns) ==
    IF written THEN [comments |-> cs, notifications |-> ns] ELSE fsaved

\* app.post('/api/comments'), lines 416-477
FileCreate(u, url, text, parentId) ==
    /\ started < MaxOps
    /\ started' = started + 1
    /\ IF text = <<>>
       THEN /\ resp' = Response(started + 1, "create", 400, u, 0, <<>>)
            /\ UNCHANGED <<fcomments, fnotifications, fsaved, received, emitted>>
       ELSE /\ Len(fcomments) < MaxComments
            /\ LET id   == clock
                   loop == FileMentionLoop(extractMentions(text), u, id, url,
                                           [pushed |-> <<>>, events |-> <<>>])
               IN  /\ fcomments' = Append(fcomments,
                                      [id |-> id, url |-> url,
                                       parentId |-> parentId, authorId |-> u,
                                       timestamp |-> clock,
                                       editedAt |-> NotEdited,
                                       upvotes |-> 0, downvotes |-> 0])
                   /\ \E written \in BOOLEAN :
                         fsaved' = saveData(written, fcomments', fnotifications)
                   /\ fnotifications' = fnotifications \o loop.pushed
                   /\ Publish(Append(loop.events, NewCommentEv(url, id)))
                   /\ resp' = Response(started + 1, "create", 201, u, id, <<>>)
    /\ UNCHANGED <<storeVars, reqs, listing, args, conn, rooms>>

\* comments.find(c => c.id === id) / findIndex: index of the first match,
\* 0 when there is none
FindIndex(id) ==
    IF \E k \in DOMAIN fcomments : fcomments[k].id = id
    THEN CHOOSE k \in DOMAIN fcomments :
            /\ fcomments[k].id = id
            /\ \A j \in 1..(k - 1) : fcomments[j].id # id
    ELSE 0

\* app.post('/api/comments/:id/vote'), lines 480-520
FileVote(u, id, voteType) ==
    /\ started < MaxOps
    /\ started' = started + 1
    /\ LET k == FindIndex(id)
       IN  IF voteType \notin VoteTypes
           THEN /\ resp' = Response(started + 1, "vote", 400, u, id, <<>>)
                /\ UNCHANGED <<fcomments, received, emitted>>
           ELSE IF k = 0
           THEN /\ resp' = Response(started + 1, "vote", 404, u, id, <<>>)
                /\ UNCHANGED <<fcomments, received, emitted>>
           ELSE LET c  == fcomments[k]
                    up == IF voteType = "remove" THEN Max(0, c.upvotes - 1)
                          ELSE IF voteType = "up" THEN c.upvotes + 1
                          ELSE c.upvotes
                    dn == IF voteType = "remove" THEN Max(0, c.downvotes - 1)
                          ELSE IF voteType = "up" THEN c.downvotes
                          ELSE c.downvotes + 1
                IN  /\ fcomments' = [fcomments EXCEPT ![k].upvotes = up,
                                                      ![k].downvotes = dn]
                    /\ Publish(<<CommentVotedEv(id, up, dn)>>)
                    /\ resp' = Response(started + 1, "vote", 200, u, id,
                                        [voteType |-> voteType,
                                         upvotes |-> up, downvotes |-> dn])
    /\ UNCHANGED <<storeVars, reqs, listing, args, conn, rooms,
                   fnotifications, fsaved>>

\* a variant that replaces the comment by a fresh one
FileEditedFresh(c, at) ==
    [c EXCEPT !.editedAt = at, !.upvotes = 0, !.downvotes = 0]

\* comment.text = finalText; comment.rawText = text;
\* comment.editedAt = new Date()
FileEdited(c, at) == [c EXCEPT !.editedAt = at]

\* app.put('/api/comments/:id'), lines 522-562
FileEdit(u, id, text) ==
    /\ started < MaxOps
    /\ started' = started + 1
    /\ LET k == FindIndex(id)
       IN  IF text = <<>>
           THEN /\ resp' = Response(started + 1, "edit", 400, u, id, <<>>)
                /\ UNCHANGED <<fcomments, received, emitted>>
           ELSE IF k = 0
           THEN /\ resp' = Response(started + 1, "edit", 404, u, id, <<>>)
                /\ UNCHANGED <<fcomments, received, emitted>>
           ELSE IF fcomments[k].authorId # u
           THEN /\ resp' = Response(started + 1, "edit", 403, u, id, <<>>)
                /\ UNCHANGED <<fcomments, received, emitted>>
           ELSE /\ fcomments' = [fcomments EXCEPT ![k] = FileEdited(@, clock)]
                /\ Publish(<<CommentEditedEv(id)>>)
                /\ resp' = Response(started + 1, "edit", 200, u, id, <<>>)
    /\ UNCHANGED <<storeVars, reqs, listing, args, conn, rooms,
                   fnotifications, fsaved>>

\* arr.splice(k, 1)
Splice(arr, k) == SubSeq(arr, 1, k - 1) \o SubSeq(arr, k + 1, Len(arr))

\* repliesToRemove.forEach(reply => comments.splice(findIndex(reply.id), 1))
RECURSIVE RemoveReplies(_, _)
RemoveReplies(arr, replies) ==
    IF replies = <<>> THEN arr
    ELSE LET k == CHOOSE i \in DOMAIN arr :
                     /\ arr[i].id = Head(replies).id
                     /\ \A j \in 1..(i - 1) : arr[j].id # Head(replies).id
         IN  RemoveReplies(Splice(arr, k), Tail(replies))

\* app.delete('/api/comments/:id'), lines 565-601
FileDelete(u, id) ==
    /\ started < MaxOps
    /\ started' = started + 1
    /\ LET k == FindIndex(id)
       IN  IF k = 0
           THEN /\ resp' = Response(started + 1, "delete", 404, u, id, <<>>)
                /\ UNCHANGED <<fcomments, received, emitted>>
           ELSE IF fcomments[k].authorId # u
           THEN /\ resp' = Response(started + 1, "delete", 403, u, id, <<>>)
                /\ UNCHANGED <<fcomments, received, emitted>>
           ELSE LET rest    == Splice(fcomments, k)
                    replies == SelectSeq(rest, LAMBDA c : c.parentId = id)
                IN  /\ fcomments' = RemoveReplies(rest, replies)
                    /\ Publish(<<CommentDeletedEv(id)>>)
                    /\ resp' = Response(started + 1, "delete", 200, u, id, <<>>)
    /\ UNCHANGED <<storeVars, reqs, listing, args, conn, rooms,
                   fnotifications, fsaved>>

-----------------------------------------------------------------------------
(***************************************************************************)
(* PUT /api/notifications/:id/read, Firestore variant (lines 1376-1400)    *)
(* and flat-file variant (lines 618-634).                                  *)
(***************************************************************************)
\* an identifier that names no notification document
DanglingNotification == MaxOps + 1

\* a variant in which every user passes the test
OwnsAnyNotification(u, id) == TRUE

\* notification.userId === req.user.id
OwnsNotification(u, id) == notifications[id].userId = u

\* request accepted; notificationsCollection.doc(id).get(); 404 and 403
MarkReadStart(r, u, id) ==
    /\ reqs[r].pc = "idle"
    /\ started < MaxOps
    /\ started' = started + 1
    /\ IF id \notin DOMAIN notifications
       THEN /\ resp' = Response(started + 1, "read", 404, u, id, <<>>)
            /\ UNCHANGED reqs
       ELSE IF ~OwnsNotification(u, id)
       THEN /\ resp' = Response(started + 1, "read", 403, u, id, <<>>)
            /\ UNCHANGED reqs
       ELSE /\ reqs' = [reqs EXCEPT ![r] =
                          [IdleReq EXCEPT !.pc = "readUpdate", !.op = "read",
                                          !.n = started + 1, !.user = u,
                                          !.id = id]]
            /\ UNCHANGED resp
    /\ UNCHANGED <<storeVars, listing, args, sockVars, fileVars>>

\* notificationsCollection.doc(id).update({ read: true }), which rejects
\* when the document is gone; res.json({ success: true })
MarkReadUpdate(r) ==
    /\ reqs[r].pc = "readUpdate"
    /\ LET q == reqs[r]
       IN  IF q.id \in DOMAIN notifications
           THEN /\ notifications' = [notifications EXCEPT ![q.id].read = TRUE]
                /\ resp' = Response(q.n, "read", 200, q.user, q.id, <<>>)
           ELSE /\ resp' = Response(q.n, "read", 500, q.user, q.id, <<>>)
                /\ UNCHANGED notifications
    /\ reqs' = [reqs EXCEPT ![r] = IdleReq]
    /\ UNCHANGED <<comments, votes, nextId, clock, lineage, started, listing,
                   args, sockVars, fileVars>>

\* notifications.find(n => n.id === id && n.userId === req.user.id): the
\* position of the notification in the array stands for its id
FileFindNotification(u, k) ==
    k \in DOMAIN fnotifications /\ fnotifications[k].userId = u

\* app.put('/api/notifications/:id/read'), lines 618-634
FileMarkRead(u, k) ==
    /\ started < MaxOps
    /\ started' = started + 1
    /\ IF ~FileFindNotification(u, k)
       THEN /\ resp' = Response(started + 1, "read", 404, u, k, <<>>)
            /\ UNCHANGED fnotifications
       ELSE /\ fnotifications' = [fnotifications EXCEPT ![k].read = TRUE]
            /\ resp' = Response(started + 1, "read", 200, u, k, <<>>)
    /\ UNCHANGED <<storeVars, reqs, listing, args, sockVars, fcomments, fsaved>>

-----------------------------------------------------------------------------
(***************************************************************************)
(* Initial state: the server has started, the stores are empty, no socket  *)
(* is connected.                                                           *)
(***************************************************************************)
NoArgs == <<>>

InitServer ==
    /\ comments = <<>>
    /\ votes = <<>>
    /\ notifications = <<>>
    /\ nextId = [comment |-> 1, vote |-> 1, notification |-> 1]
    /\ clock = 1
    /\ lineage = <<>>
    /\ reqs = [r \in Reqs |-> IdleReq]
    /\ started = 0
    /\ resp = NoResponse
    /\ listing = NoListing
    /\ conn = [s \in Sockets |-> "new"]
    /\ rooms = [s \in Sockets |-> {}]
    /\ received = [s \in Sockets |-> <<>>]
    /\ emitted = [count |-> 0, events |-> <<>>, threw |-> FALSE]
    /\ fcomments = <<>>
    /\ fnotifications = <<>>
    /\ fsaved = [comments |-> <<>>, notifications |-> <<>>]

Init == InitServer /\ args = NoArgs

-----------------------------------------------------------------------------
(***************************************************************************)
(* SpecRead: comments are created (no mentions in the text) and listed.    *)
(* A parentId is absent, names a stored comment of any topic, or names no  *)
(* comment.                                                                *)
(***************************************************************************)
ReadQueries == {QueryAbsent, <<"0">>, <<"1">>, <<"2">>}

NextRead ==
    \/ \E url \in Topics,
          parentId \in {NoParent, DanglingId} \cup DOMAIN comments :
          CreateStart(1, "u1", url, <<"a">>, parentId)
    \/ \E url \in Topics, page \in ReadQueries, limit \in ReadQueries :
          GetComments(url, page, limit)

SpecRead == Init /\ [][NextRead]_vars

-----------------------------------------------------------------------------
(***************************************************************************)
(* SpecVote: root comments are created on one topic and voted on, with     *)
(* up to MaxReqs vote requests in flight at once.                          *)
(***************************************************************************)
NextVote ==
    \/ \E r \in Reqs, u \in Users : CreateStart(r, u, "t1", <<"a">>, NoParent)
    \/ \E r \in Reqs, u \in Users, id \in CommentIds, voteType \in VoteTypes :
          VoteStart(r, u, id, voteType)
    \/ \E r \in Reqs : VoteQuery(r)
    \/ \E r \in Reqs : VoteWrite(r)
    \/ \E r \in Reqs : VoteTally(r)

SpecVote == Init /\ [][NextVote]_vars

-----------------------------------------------------------------------------
(***************************************************************************)
(* SpecFault: comments with and without a mention are created and voted    *)
(* on while writes to the store can be rejected and io.emit can throw.     *)
(***************************************************************************)
HubTexts == {<<"a">>, <<"@", "b">>}

\* the request slot of user u
Slot(u) == IF u = "u1" THEN 1 ELSE 2

NextFault ==
    \/ \E u \in Users, text \in HubTexts :
          CreateStart(Slot(u), u, "t1", text, NoParent)
    \/ \E u \in Users, text \in HubTexts :
          CreateAddRejected(Slot(u), u, "t1", text)
    \/ \E r \in Reqs : CreateResolve(r)
    \/ \E r \in Reqs : CreateNotify(r)
    \/ \E r \in Reqs : CreateNotifyRejected(r)
    \/ \E u \in Users, id \in CommentIds, voteType \in VoteTypes :
          VoteStart(Slot(u), u, id, voteType)
    \/ \E r \in Reqs : VoteQuery(r)
    \/ \E r \in Reqs : VoteWrite(r)
    \/ \E r \in Reqs : VoteWriteRejected(r)
    \/ \E r \in Reqs : VoteTally(r)
    \/ \E r \in Reqs : VoteTallyEmitThrows(r)
    \/ \E r \in Reqs : VoteTallyReadRejected(r)

SpecFault == Init /\ [][NextFault]_vars

-----------------------------------------------------------------------------
(***************************************************************************)
(* SpecTally: as SpecVote, but every actor sends its requests one after    *)
(* the other (one request slot per user), while the requests of different  *)
(* actors overlap; the topic is also listed.                               *)
(***************************************************************************)
NextTally ==
    \/ \E u \in Users : CreateStart(Slot(u), u, "t1", <<"a">>, NoParent)
    \/ \E u \in Users, id \in CommentIds, voteType \in VoteTypes :
          VoteStart(Slot(u), u, id, voteType)
    \/ \E u \in Users : VoteQuery(Slot(u))
    \/ \E u \in Users : VoteWrite(Slot(u))
    \/ \E u \in Users : VoteTally(Slot(u))
    \/ GetComments("t1", QueryAbsent, QueryAbsent)

SpecTally == Init /\ [][NextTally]_vars

-----------------------------------------------------------------------------
(***************************************************************************)
(* SpecDelete: comments and replies to stored comments are created on one  *)
(* topic, and deleted.                                                     *)
(***************************************************************************)
NextDelete ==
    \/ \E r \in Reqs, u \in Users, parentId \in {NoParent} \cup DOMAIN comments :
          CreateStart(r, u, "t1", <<"a">>, parentId)
    \/ \E r \in Reqs, u \in Users, id \in CommentIds : DeleteStart(r, u, id)
    \/ \E r \in Reqs : DeleteDoc(r)
    \/ \E r \in Reqs : DeleteQueryReplies(r)
    \/ \E r \in Reqs : DeleteReplies(r)
    \/ \E r \in Reqs : DeleteQueryVotes(r)
    \/ \E r \in Reqs : DeleteVotes(r)

SpecDelete == Init /\ [][NextDelete]_vars

-----------------------------------------------------------------------------
(***************************************************************************)
(* SpecFile: the flat-file server: comments are created, voted on and      *)
(* deleted, one request at a time.                                         *)
(***************************************************************************)
FileParents == {NoParent} \cup {fcomments[k].id : k \in DOMAIN fcomments}

NextFile ==
    \/ Tick
    \/ \E u \in Users, parentId \in FileParents :
          FileCreate(u, "t1", <<"a">>, parentId)
    \/ \E u \in Users, id \in CommentIds, voteType \in VoteTypes :
          FileVote(u, id, voteType)
    \/ \E u \in Users, id \in CommentIds : FileDelete(u, id)

SpecFile == Init /\ [][NextFile]_vars

-----------------------------------------------------------------------------
(***************************************************************************)
(* SpecMention: comments with any text over Alphabet are created on the    *)
(* Firestore server by either user; the mention loop runs step by step.    *)
(***************************************************************************)
NextMention ==
    \/ \E u \in Users, text \in Texts :
          CreateStart(1, u, "t1", text, NoParent)
    \/ CreateResolve(1)
    \/ CreateNotify(1)

SpecMention == Init /\ [][NextMention]_vars

-----------------------------------------------------------------------------
(***************************************************************************)
(* SpecLoop: as SpecMention, with at most MaxLoopComments comments stored, *)
(* so that every text is tried as each of them.                            *)
(***************************************************************************)
NextLoop ==
    \/ \E u \in Users, text \in Texts :
          /\ nextId.comment <= MaxLoopComments
          /\ CreateStart(1, u, "t1", text, NoParent)
    \/ CreateResolve(1)
    \/ CreateNotify(1)

SpecLoop == Init /\ [][NextLoop]_vars

-----------------------------------------------------------------------------
(***************************************************************************)
(* SpecHub: u1 creates comments, with and without a mention of u2, while   *)
(* sockets connect, join rooms and disconnect.  A socket can join a room   *)
(* under any key: a topic, or a user id.                                   *)
(***************************************************************************)
RoomKeys == {"t1", "u2"}

NextHub ==
    \/ \E text \in HubTexts : CreateStart(1, "u1", "t1", text, NoParent)
    \/ CreateResolve(1)
    \/ CreateNotify(1)
    \/ \E s \in Sockets : Connect(s)
    \/ \E s \in Sockets, key \in RoomKeys : JoinRoom(s, key)
    \/ \E s \in Sockets : Disconnect(s)

SpecHub == Init /\ [][NextHub]_vars

-----------------------------------------------------------------------------
(***************************************************************************)
(* SpecTopic: u1 creates comments on either topic and votes on stored      *)
(* comments while sockets connect, join topic rooms and disconnect.        *)
(***************************************************************************)
NextTopic ==
    \/ \E url \in Topics : CreateStart(1, "u1", url, <<"a">>, NoParent)
    \/ \E id \in DOMAIN comments, voteType \in {"up"} :
          VoteStart(1, "u1", id, voteType)
    \/ VoteQuery(1)
    \/ VoteWrite(1)
    \/ VoteTally(1)
    \/ \E s \in Sockets : Connect(s)
    \/ \E s \in Sockets, url \in Topics : JoinRoom(s, url)
    \/ \E s \in Sockets : Disconnect(s)

SpecTopic == Init /\ [][NextTopic]_vars

-----------------------------------------------------------------------------
(***************************************************************************)
(* SpecOwner: either user creates comments and replies on one topic,       *)
(* upvotes, edits and deletes any stored or missing comment.  The requests *)
(* of one user run one after the other, those of different users overlap.  *)
(***************************************************************************)
NextOwner ==
    \/ \E u \in Users, parentId \in {NoParent} \cup DOMAIN comments :
          CreateStart(Slot(u), u, "t1", <<"a">>, parentId)
    \/ \E u \in Users, id \in DOMAIN comments :
          VoteStart(Slot(u), u, id, "up")
    \/ \E r \in Reqs : VoteQuery(r)
    \/ \E r \in Reqs : VoteWrite(r)
    \/ \E r \in Reqs : VoteTally(r)
    \/ \E u \in Users, id \in CommentIds :
          EditStart(Slot(u), u, id, <<"b">>)
    \/ \E r \in Reqs : EditUpdate(r)
    \/ \E u \in Users, id \in CommentIds : DeleteStart(Slot(u), u, id)
    \/ \E r \in Reqs : DeleteDoc(r)
    \/ \E r \in Reqs : DeleteQueryReplies(r)
    \/ \E r \in Reqs : DeleteReplies(r)
    \/ \E r \in Reqs : DeleteQueryVotes(r)
    \/ \E r \in Reqs : DeleteVotes(r)

SpecOwner == Init /\ [][NextOwner]_vars

-----------------------------------------------------------------------------
(***************************************************************************)
(* SpecEdit: in both variants u1 creates comments on one topic, either     *)
(* user votes up or down on a stored comment and edits any stored or       *)
(* missing comment.  The requests of one user run one after the other,     *)
(* those of different users overlap.                                       *)
(***************************************************************************)
NextEdit ==
    \/ CreateStart(Slot("u1"), "u1", "t1", <<"a">>, NoParent)
    \/ \E u \in Users, id \in DOMAIN comments, voteType \in {"up", "down"} :
          VoteStart(Slot(u), u, id, voteType)
    \/ \E r \in Reqs : VoteQuery(r)
    \/ \E r \in Reqs : VoteWrite(r)
    \/ \E r \in Reqs : VoteTally(r)
    \/ \E u \in Users, id \in DOMAIN comments \cup {DanglingId} :
          EditStart(Slot(u), u, id, <<"b">>)
    \/ \E r \in Reqs : EditUpdate(r)
    \/ FileCreate("u1", "t1", <<"a">>, NoParent)
    \/ \E u \in Users, k \in DOMAIN fcomments, voteType \in {"up", "down"} :
          FileVote(u, fcomments[k].id, voteType)
    \/ \E u \in Users, id \in {fcomments[k].id : k \in DOMAIN fcomments}
                                  \cup {DanglingId} :
          FileEdit(u, id, <<"b">>)

SpecEdit == Init /\ [][NextEdit]_vars

-----------------------------------------------------------------------------
(***************************************************************************)
(* SpecNotice: either user creates comments that mention the other one,    *)
(* marks any stored or missing notification read and deletes any stored    *)
(* comment, in both variants.  The requests of one user run one after the  *)
(* other, those of different users overlap.                                *)
(***************************************************************************)
NoticeText(u) == IF u = "u1" THEN <<"@", "b">> ELSE <<"@", "a">>

NextNotice ==
    \/ \E u \in Users : CreateStart(Slot(u), u, "t1", NoticeText(u), NoParent)
    \/ \E r \in Reqs : CreateResolve(r)
    \/ \E r \in Reqs : CreateNotify(r)
    \/ \E u \in Users, id \in DOMAIN notifications \cup {DanglingNotification} :
          MarkReadStart(Slot(u), u, id)
    \/ \E r \in Reqs : MarkReadUpdate(r)
    \/ \E u \in Users, id \in DOMAIN comments : DeleteStart(Slot(u), u, id)
    \/ \E r \in Reqs : DeleteDoc(r)
    \/ \E r \in Reqs : DeleteQueryReplies(r)
    \/ \E r \in Reqs : DeleteReplies(r)
    \/ \E r \in Reqs : DeleteQueryVotes(r)
    \/ \E r \in Reqs : DeleteVotes(r)
    \/ \E u \in Users : FileCreate(u, "t1", NoticeText(u), NoParent)
    \/ \E u \in Users, k \in 1..(Len(fnotifications) + 1) : FileMarkRead(u, k)
    \/ \E u \in Users, k \in DOMAIN fcomments : FileDelete(u, fcomments[k].id)

SpecNotice == Init /\ [][NextNotice]_vars

-----------------------------------------------------------------------------
(***************************************************************************)
(* SpecTree: buildCommentTree called on its own, on every sequence of      *)
(* comments with pairwise distinct ids whose parentId is absent or any     *)
(* identifier (of the sequence or not, the comment's own included).        *)
(***************************************************************************)
TreeComment(id, parentId) ==
    [id |-> id, url |-> "t1", parentId |-> parentId, authorId |-> "u1",
     timestamp |-> 0, upvotes |-> 0, downvotes |-> 0]

TreeInputs ==
    {cs \in SeqsOf({TreeComment(i, p) : i \in CommentIds,
                                        p \in {NoParent, DanglingId}
                                              \cup CommentIds},
                   0, MaxComments) :
        \A i, k \in DOMAIN cs : i # k => cs[i].id # cs[k].id}

InitTree ==
    /\ InitServer
    /\ args \in TreeInputs

CallBuildCommentTree ==
    /\ listing = NoListing
    /\ LET tree == buildCommentTree(args)
       IN  /\ listing' = [NoListing EXCEPT !.paginatedComments = args,
                                           !.commentMap = tree.commentMap,
                                           !.rootComments = tree.rootComments]
           /\ resp' = Response(1, "list", 200, "-", 0,
                               [comments   |-> Forest(tree),
                                pagination |-> Pagination(0, 0, 0)])
    /\ UNCHANGED <<storeVars, reqs, started, args, sockVars, fileVars>>

SpecTree == InitTree /\ [][CallBuildCommentTree]_vars

-----------------------------------------------------------------------------
(***************************************************************************)
(* SpecPage: the pagination arithmetic of GET /api/comments on its own,    *)
(* for every number of comments of the topic and every page and limit.     *)
(***************************************************************************)
InitPage ==
    /\ InitServer
    /\ args \in [totalComments : 0..MaxTotal, page : QueryInputs,
                  limit : QueryInputs]

CallPagination ==
    /\ listing = NoListing
    /\ LET pageNum  == QueryNumber(args.page, DefaultPage)
           limitNum == QueryNumber(args.limit, DefaultLimit)
       IN  /\ listing' = [NoListing EXCEPT !.url = "t1",
                                           !.pageNum = pageNum,
                                           !.limitNum = limitNum]
           /\ resp' = Response(1, "list", 200, "-", 0,
                               [comments   |-> <<>>,
                                pagination |-> Pagination(pageNum, limitNum,
                                                  args.totalComments)])
    /\ UNCHANGED <<storeVars, reqs, started, args, sockVars, fileVars>>

SpecPage == InitPage /\ [][CallPagination]_vars

-----------------------------------------------------------------------------
(***************************************************************************)
(* Properties of the CommentTreeBuilder and of the listing.                *)
(***************************************************************************)
\* a listing has been computed and `listing`, `resp` hold its locals and body
Listed == resp.op = "list"

InputIds(cs) == {cs[k].id : k \in DOMAIN cs}

\* number of nodes of a serialised forest, nested replies included
RECURSIVE NodeCount(_)
NodeCount(forest) ==
    IF forest = <<>> THEN 0
    ELSE 1 + NodeCount(Head(forest).replies) + NodeCount(Tail(forest))

\* number of times the comment `id` occurs in a serialised forest
RECURSIVE Occurrences(_, _)
Occurrences(forest, id) ==
    IF forest = <<>> THEN 0
    ELSE (IF Head(forest).id = id THEN 1 ELSE 0)
         + Occurrences(Head(forest).replies, id)
         + Occurrences(Tail(forest), id)

\* every node of a serialised forest, at any depth
RECURSIVE NodesOf(_)
NodesOf(forest) ==
    IF forest = <<>> THEN {}
    ELSE {Head(forest)} \cup NodesOf(Head(forest).replies)
                        \cup NodesOf(Tail(forest))

\* indices of the comments whose parent is absent or is in the input
ParentPresent(cs) ==
    {k \in DOMAIN cs : \/ cs[k].parentId = NoParent
                       \/ cs[k].parentId \in InputIds(cs)}

\* indices of the comments whose chain of parents, followed inside the
\* input, ends at a comment without parent (n rounds of the closure)
RECURSIVE RootedWithin(_, _)
RootedWithin(cs, n) ==
    IF n = 0 THEN {k \in DOMAIN cs : cs[k].parentId = NoParent}
    ELSE LET prev == RootedWithin(cs, n - 1)
         IN  prev \cup {k \in DOMAIN cs :
                           \E j \in prev : cs[j].id = cs[k].parentId}
Rooted(cs) == RootedWithin(cs, Len(cs))

\* following the parents of `cur` inside the input leads back to `start`
\* within n steps
RECURSIVE ChainReturns(_, _, _, _)
ChainReturns(cs, start, cur, n) ==
    IF n = 0 \/ cur.parentId \notin InputIds(cs) THEN FALSE
    ELSE IF cur.parentId = start.id THEN TRUE
    ELSE ChainReturns(cs, start,
                      cs[CHOOSE j \in DOMAIN cs : cs[j].id = cur.parentId],
                      n - 1)

\* no comment of the input is its own ancestor
Acyclic(cs) ==
    \A k \in DOMAIN cs : ~ChainReturns(cs, cs[k], cs[k], Len(cs))

\* C7 as stated (read on inputs where no comment is its own ancestor): the
\* forest returned by buildCommentTree holds as many comments (roots plus
\* all descendants) as the input holds comments whose parent is null or is
\* itself in the input.
C7_CountEqualsParentPresent ==
    (Listed /\ Acyclic(listing.paginatedComments)) =>
        NodeCount(resp.body.comments)
            = Cardinality(ParentPresent(listing.paginatedComments))

\* C7 amended: the forest returned by buildCommentTree holds as many
\* comments as the input holds comments whose whole chain of ancestors is
\* in the input and ends at a comment without parent.
C7_CountEqualsRooted ==
    Listed =>
        NodeCount(resp.body.comments)
            = Cardinality(Rooted(listing.paginatedComments))

\* the tree was built from an input with a root, and with a comment whose
\* parent is in the input while an earlier ancestor is not
C7_Witness ==
    /\ Listed
    /\ Acyclic(listing.paginatedComments)
    /\ resp.body.comments # <<>>
    /\ \E k \in ParentPresent(listing.paginatedComments) :
          k \notin Rooted(listing.paginatedComments)

\* indices of the replies whose parent is not in the input
Orphans(cs) ==
    {k \in DOMAIN cs : /\ cs[k].parentId # NoParent
                       /\ cs[k].parentId \notin InputIds(cs)}

\* C8: a reply whose parent is not in the builder's input occurs nowhere in
\* the returned forest, and in particular is not one of its roots.
C8_OrphanDropped ==
    Listed =>
        \A k \in Orphans(listing.paginatedComments) :
            LET id == listing.paginatedComments[k].id
            IN  /\ Occurrences(resp.body.comments, id) = 0
                /\ \A i \in DOMAIN listing.rootComments :
                      listing.rootComments[i] # id

\* a page was listed that holds a reply whose parent is stored under the
\* same topic but lies on another page, next to a comment that is returned
C8_Witness ==
    /\ Listed
    /\ resp.body.comments # <<>>
    /\ \E k \in Orphans(listing.paginatedComments) :
          LET p == listing.paginatedComments[k].parentId
          IN  p \in DOMAIN comments /\ comments[p].url = listing.url

\* the ids of the input comments whose parentId is `id`, in input order
ChildIds(cs, id) ==
    LET sel == SelectSeq(cs, LAMBDA c : c.parentId = id)
    IN  [k \in DOMAIN sel |-> sel[k].id]

IdsOf(forest) == [k \in DOMAIN forest |-> forest[k].id]

CountIn(seq, x) == Cardinality({k \in DOMAIN seq : seq[k] = x})

C10_Pagination ==
    (Listed /\ listing.limitNum >= 1 /\ listing.pageNum >= 1) =>
        LET pg == resp.body.pagination
            tp == pg.totalPages.value
        IN  /\ pg.totalPages.kind = "finite"
            /\ tp >= 0
            /\ tp * listing.limitNum >= pg.totalComments
            /\ (tp - 1) * listing.limitNum < pg.totalComments \/ tp = 0
            /\ pg.hasNextPage = (listing.pageNum < tp)
            /\ pg.hasPrevPage = (listing.pageNum > 1)
            /\ (pg.totalComments = 7 /\ listing.limitNum = 3) =>
                  /\ tp = 3
                  /\ listing.pageNum = 1 =>
                        (pg.hasNextPage /\ ~pg.hasPrevPage)
                  /\ listing.pageNum = 3 => ~pg.hasNextPage

\* page 1 of 7 comments in pages of 3 has been computed
C10_Witness ==
    /\ Listed
    /\ resp.body.pagination.totalComments = 7
    /\ listing.limitNum = 3
    /\ listing.pageNum = 1

-----------------------------------------------------------------------------
(***************************************************************************)
(* Properties of the VoteAggregator and of deletion.                       *)
(***************************************************************************)
RowsOf(c, u) ==
    {v \in DOMAIN votes : votes[v].commentId = c /\ votes[v].userId = u}

\* C1: in every reachable state, whatever the interleaving of the vote
\* requests, there is at most one live vote row per (comment, voter) pair.
C1_OneRowPerVoter ==
    \A c \in CommentIds, u \in Users : Cardinality(RowsOf(c, u)) <= 1

\* `a` is an ancestor of `c` through the parentId recorded at creation,
\* within n steps
RECURSIVE IsAncestorWithin(_, _, _)
IsAncestorWithin(a, c, n) ==
    IF n = 0 \/ c \notin DOMAIN lineage THEN FALSE
    ELSE IF lineage[c] = a THEN TRUE
    ELSE IsAncestorWithin(a, lineage[c], n - 1)

IsAncestor(a, c) == IsAncestorWithin(a, c, MaxComments)

\* C6: once the author's delete of comment A has succeeded, no stored
\* comment has A as an ancestor through the parent chain.
C6_SubtreeDeleted ==
    (resp.op = "delete" /\ resp.status = 200) =>
        \A c \in DOMAIN comments : ~IsAncestor(resp.id, c)

\* the step sends the 200 response of a castVote(c, u, k2) while the last
\* response sent before it was the 200 response of a castVote(c, u, k1)
CastAfterCast(k1, k2) ==
    /\ resp.op = "vote" /\ resp.status = 200
    /\ resp'.op = "vote" /\ resp'.status = 200
    /\ resp'.n # resp.n
    /\ resp'.user = resp.user
    /\ resp'.id = resp.id
    /\ resp.body.voteType = k1
    /\ resp'.body.voteType = k2

\* C2: castVote(c, u, k) directly followed by castVote(c, u, k) leaves the
\* tally of c as it was after the first call.
C2_CastVoteIdempotent ==
    [][\A k \in {"up", "down"} :
          CastAfterCast(k, k) =>
              /\ resp'.body.upvotes = resp.body.upvotes
              /\ resp'.body.downvotes = resp.body.downvotes]_vars

\* C3: castVote(c, u, k1) directly followed by castVote(c, u, k2) with the
\* other kind moves exactly one count from k1 to k2; on a comment with no
\* other votes, up then down yields {upvotes: 0, downvotes: 1}.
C3_RevoteMovesOneCount ==
    [][/\ CastAfterCast("up", "down") =>
             /\ resp'.body.upvotes = resp.body.upvotes - 1
             /\ resp'.body.downvotes = resp.body.downvotes + 1
       /\ CastAfterCast("down", "up") =>
             /\ resp'.body.upvotes = resp.body.upvotes + 1
             /\ resp'.body.downvotes = resp.body.downvotes - 1
       /\ (CastAfterCast("up", "down") /\ resp.body.upvotes = 1
                                       /\ resp.body.downvotes = 0) =>
             (resp'.body.upvotes = 0 /\ resp'.body.downvotes = 1)]_vars

\* C4: in every reachable state there is at most one notification per
\* (triggering comment, recipient) pair, however many times the recipient's
\* handle occurs in the comment text.
C4_OneNotificationPerRecipient ==
    \A n1, n2 \in DOMAIN notifications :
        (/\ notifications[n1].commentId = notifications[n2].commentId
         /\ notifications[n1].userId = notifications[n2].userId) => n1 = n2

\* the events delivered to socket s by the step
Delivered(s) ==
    SubSeq(received'[s], Len(received[s]) + 1, Len(received'[s]))

\* socket s has subscribed under the key `key` (socket.join is the only
\* subscription the server offers)
Subscribed(s, key) == key \in rooms[s]

\* C5: a notification event for recipient r is delivered only to sockets
\* that have subscribed as r.
C5_NotificationOnlyToRecipient ==
    [][\A s \in Sockets : \A k \in DOMAIN Delivered(s) :
          Delivered(s)[k].type = "notification" =>
              Subscribed(s, Delivered(s)[k].userId)]_vars

\* the step sends a response of operation op with the given status
Responds(op, status) ==
    /\ resp'.n # resp.n
    /\ resp'.op = op
    /\ resp'.status = status

\* the stored comment identifiers of both servers
StoredIds == DOMAIN comments \cup {fcomments[k].id : k \in DOMAIN fcomments}

\* C11: a vote request naming a comment that does not exist is answered
\* 404 in the step that receives it: it never gets past the existence test,
\* and the answering step changes no vote row and no tally and publishes no
\* event.
C11_VoteNotFound ==
    [][/\ \A r \in Reqs :
            (reqs[r].pc = "idle" /\ reqs'[r].pc = "voteQuery") =>
                reqs'[r].id \in DOMAIN comments
       /\ Responds("vote", 200) => resp'.id \in StoredIds
       /\ Responds("vote", 404) =>
            /\ resp'.id \notin StoredIds
            /\ UNCHANGED <<votes, comments, fcomments, received, emitted>>]_vars

\* a vote on a missing comment has been answered 404 while a vote row is
\* stored and events have been published
C11_Witness ==
    /\ resp.op = "vote" /\ resp.status = 404
    /\ resp.id \notin DOMAIN comments
    /\ votes # <<>>
    /\ emitted.count > 0

\* C12: removeVote(c, u) directly after u's castVote(c, u, k) takes one off
\* the count of kind k and leaves the other count alone; removeVote(c, u)
\* directly after u's removeVote(c, u), when u has no row left, changes
\* nothing in the tally of c.
C12_RemoveVote ==
    [][/\ CastAfterCast("up", "remove") =>
             /\ resp'.body.upvotes = resp.body.upvotes - 1
             /\ resp'.body.downvotes = resp.body.downvotes
       /\ CastAfterCast("down", "remove") =>
             /\ resp'.body.upvotes = resp.body.upvotes
             /\ resp'.body.downvotes = resp.body.downvotes - 1
       /\ CastAfterCast("remove", "remove") =>
             /\ resp'.body.upvotes = resp.body.upvotes
             /\ resp'.body.downvotes = resp.body.downvotes]_vars

\* the live vote rows of comment c with kind k, in the state after the step
LiveRows(c, k) ==
    {v \in DOMAIN votes' : votes'[v].commentId = c /\ votes'[v].voteType = k}

\* the live vote rows of voter u on comment c, in the state after the step
RowsOfVoter(c, u) ==
    {v \in DOMAIN votes' : votes'[v].commentId = c /\ votes'[v].userId = u}

Published == IF emitted'.count # emitted.count THEN emitted'.events ELSE <<>>

\* the comments whose insert the store has acknowledged: the documents ever
\* added to the comments collection, and the comments written to data.json
AcknowledgedIds ==
    DOMAIN lineage'
        \cup {fsaved'.comments[k].id : k \in DOMAIN fsaved'.comments}

\* C14: a newComment event is published only for a comment whose insert has
\* been acknowledged by the store.
C14_PublishAfterAck ==
    [][\A k \in DOMAIN Published :
          Published[k].type = "newComment" =>
              Published[k].commentId \in AcknowledgedIds]_vars

\* the step ends the request in slot r, which was at step pc of its handler
Ends(r, pc) == reqs[r].pc = pc /\ reqs'[r].pc = "idle"

\* C15: a vote request whose write has been acknowledged is answered with
\* its success response, also when the publication of commentVoted fails.
C15_PublishFailureKeepsSuccess ==
    [][\A r \in Reqs :
          Ends(r, "voteTally") =>
              (resp'.n = reqs[r].n /\ resp'.op = "vote" /\ resp'.status = 200)]_vars

\* C16: a create request whose comment has been persisted is answered 201,
\* also when persisting a notification row fails, and the comment stays.
C16_NotificationFailureIsPartial ==
    [][\A r \in Reqs :
          (Ends(r, "resolve") \/ Ends(r, "notify")) =>
              /\ resp'.n = reqs[r].n /\ resp'.op = "create"
              /\ resp'.status = 201
              /\ reqs[r].id \in DOMAIN comments']_vars

\* the notification rows added by the step
NewNotifications == (DOMAIN notifications') \ (DOMAIN notifications)

\* C17: no notification has the author of its triggering comment as
\* recipient; a notification is added only for a handle that resolves to a
\* user other than the author; and a create request whose handles resolve to
\* nobody or to the author ends with 201.
C17_NoSelfNoUnresolved ==
    [][/\ \A n \in DOMAIN notifications' :
            notifications'[n].commentId \in DOMAIN comments' =>
               notifications'[n].userId
                  # comments'[notifications'[n].commentId].authorId
       /\ \A n \in NewNotifications :
            \E r \in Reqs :
               /\ reqs[r].pc = "notify"
               /\ notifications'[n].commentId = reqs[r].id
               /\ notifications'[n].userId # reqs[r].user
               /\ Username[notifications'[n].userId]
                     = reqs[r].mentions[reqs[r].at]
       /\ \A r \in Reqs :
            Ends(r, "resolve") =>
               (resp'.n = reqs[r].n /\ resp'.status = 201)]_vars

\* the loop has gone past a mention of the author, is at a handle that names
\* no user, and no notification exists for the comment
C17_Witness ==
    \E r \in Reqs :
       /\ reqs[r].pc = "resolve"
       /\ reqs[r].at = 2
       /\ reqs[r].mentions[1] = Username[reqs[r].user]
       /\ UsersByName(reqs[r].mentions[2]) = {}
       /\ \A n \in DOMAIN notifications :
             notifications[n].commentId # reqs[r].id

TopicEvents == {"newComment", "commentEdited", "commentDeleted", "commentVoted"}

\* the topic of a topic event: the url it carries, or the url of the comment
\* it names
TopicOf(ev) ==
    IF ev.type = "newComment" THEN ev.url
    ELSE IF ev.commentId \in DOMAIN comments THEN comments[ev.commentId].url
    ELSE "-"

\* C18: every topic event published for topic t is delivered, in the
\* publishing step, to every socket that is joined to t at that moment.
C18_TopicDelivery ==
    [][\A k \in DOMAIN Published :
          Published[k].type \in TopicEvents =>
             \A s \in Sockets :
                TopicOf(Published[k]) \in rooms[s] =>
                   \E j \in DOMAIN Delivered(s) :
                      Delivered(s)[j] = Published[k]]_vars

\* both sockets are joined to t1, one of them also to t2, and each has been
\* delivered a newComment and a commentVoted event of t1
C18_Witness ==
    /\ \A s \in Sockets : "t1" \in rooms[s]
    /\ \E s \in Sockets : "t2" \in rooms[s]
    /\ \A s \in Sockets :
          /\ \E k \in DOMAIN received[s] :
                received[s][k].type = "newComment" /\ received[s][k].url = "t1"
          /\ \E k \in DOMAIN received[s] :
                received[s][k].type = "commentVoted"

\* C19: a socket's delivery log only grows, and it grows only in a step
\* that publishes, by exactly the events published in that step, each once,
\* and only for a socket connected at that moment: connecting and joining
\* replay nothing, and nothing is delivered twice.
C19_AtMostOnceNoReplay ==
    [][\A s \in Sockets :
          /\ Len(received'[s]) >= Len(received[s])
          /\ SubSeq(received'[s], 1, Len(received[s])) = received[s]
          /\ Delivered(s) = IF conn[s] = "open" THEN Published ELSE <<>>]_vars

\* a socket joined t1 after a newComment of t1 was published, holds no event,
\* while the other socket, connected all along, holds that event once
C19_Witness ==
    \E s, o \in Sockets :
       /\ "t1" \in rooms[s]
       /\ received[s] = <<>>
       /\ Len(received[o]) = 1
       /\ received[o][1].type = "newComment"
       /\ received[o][1].url = "t1"
       /\ emitted.count = 1

\* C20: an edit or delete request of a stored comment by a user other than
\* its author is answered 403 in the step that receives it, which changes no
\* comment and no vote and publishes no event; only a request of the author
\* gets past the test; a delete request that arrives when the comment is gone
\* is answered 404, and a removed comment never comes back.
C20_AuthorOnly ==
    [][/\ \A op \in {"edit", "delete"} :
            /\ Responds(op, 403) =>
                  /\ resp'.id \in DOMAIN comments
                  /\ comments[resp'.id].authorId # resp'.user
                  /\ UNCHANGED <<comments, votes, received, emitted>>
            /\ Responds(op, 404) =>
                  /\ resp'.id \notin DOMAIN comments
                  /\ UNCHANGED <<comments, votes, received, emitted>>
       /\ \A r \in Reqs :
            (reqs[r].pc = "idle" /\ reqs'[r].pc \in {"editUpdate", "deleteDoc"}) =>
               /\ reqs'[r].id \in DOMAIN comments
               /\ comments[reqs'[r].id].authorId = reqs'[r].user
       /\ \A c \in DOMAIN lineage :
            c \notin DOMAIN comments => c \notin DOMAIN comments']_vars

\* a delete request by a user other than the author has been answered 403
\* for a stored comment that has a reply and a vote, after events had been
\* published
C20_Witness ==
    /\ resp.op = "delete" /\ resp.status = 403
    /\ resp.id \in DOMAIN comments
    /\ comments[resp.id].authorId # resp.user
    /\ \E c \in DOMAIN comments : comments[c].parentId = resp.id
    /\ \E v \in DOMAIN votes : votes[v].commentId = resp.id
    /\ emitted.count > 0

-----------------------------------------------------------------------------
\* the step is the mark-read update of recipient u answered with success
MarkedReadBy(u) == Responds("read", 200) /\ resp'.user = u

\* C21: a stored notification is never removed by any step (the deletion of
\* the comment that triggered it included); it changes only by its read flag
\* becoming true in a successful mark-read step of its recipient; a mark-read
\* request answered 403 or 404 leaves every notification as it was.
C21_NotificationOnlyMarkedByRecipient ==
    [][/\ \A n \in DOMAIN notifications :
             /\ n \in DOMAIN notifications'
             /\ notifications'[n] # notifications[n] =>
                  /\ notifications'[n] = [notifications[n] EXCEPT !.read = TRUE]
                  /\ MarkedReadBy(notifications[n].userId)
                  /\ resp'.id = n
       /\ Len(fnotifications') >= Len(fnotifications)
       /\ \A k \in DOMAIN fnotifications :
             fnotifications'[k] # fnotifications[k] =>
                  /\ fnotifications'[k] = [fnotifications[k] EXCEPT !.read = TRUE]
                  /\ MarkedReadBy(fnotifications[k].userId)
                  /\ resp'.id = k
       /\ (Responds("read", 403) \/ Responds("read", 404)) =>
             /\ notifications' = notifications
             /\ fnotifications' = fnotifications]_vars

\* a notification of u2 is read, u1's request on it was answered 403, and the
\* comment that triggered it has been deleted
C21_Witness ==
    \E n \in DOMAIN notifications :
          /\ notifications[n].userId = "u2"
          /\ notifications[n].read
          /\ notifications[n].commentId \notin DOMAIN comments
          /\ resp.op = "read" /\ resp.status = 403 /\ resp.user = "u1"
          /\ resp.id = n

-----------------------------------------------------------------------------
\* C22: no store failure is swallowed: a vote answered with success reports
\* a zero tally only when the comment has no live up or down row (the zero
\* tally is never the product of a failed read of the rows), and a create
\* of the flat-file variant answered with success has been written to
\* data.json.
C22_StoreFailurePropagated ==
    [][/\ (Responds("vote", 200) /\ resp'.body.upvotes = 0
                                 /\ resp'.body.downvotes = 0) =>
             LiveRows(resp'.id, "up") \cup LiveRows(resp'.id, "down") = {}
       /\ (Responds("create", 201) /\ fcomments' # fcomments) =>
             fsaved'.comments = fcomments']_vars

-----------------------------------------------------------------------------
\* the step belongs to an edit request: it answers one, or it moves a request
\* slot into or out of the update of the edit handler
EditStep ==
    \/ (resp'.n # resp.n /\ resp'.op = "edit")
    \/ \E r \in Reqs : reqs'[r] # reqs[r]
                       /\ "editUpdate" \in {reqs[r].pc, reqs'[r].pc}

\* the vote counters of the flat-file comments, by position
FileCounters(cs) ==
    [k \in DOMAIN cs |-> <<cs[k].id, cs[k].upvotes, cs[k].downvotes>>]

\* C23: a step of an edit request leaves the vote rows as they were, hence
\* the set of rows and the tally of every comment; in the flat-file variant
\* it leaves the vote counters of every comment as they were.
C23_EditKeepsVotes ==
    [][EditStep =>
          /\ votes' = votes
          /\ \A c \in DOMAIN comments :
                /\ c \in DOMAIN comments'
                /\ getVotesForComment(c)' = getVotesForComment(c)
          /\ FileCounters(fcomments') = FileCounters(fcomments)]_vars

\* the last answer is the success of an edit of a comment that has a vote row
C23_Witness ==
    /\ resp.op = "edit" /\ resp.status = 200
    /\ resp.id \in DOMAIN comments
    /\ comments[resp.id].editedAt # NotEdited
    /\ \E v \in DOMAIN votes : votes[v].commentId = resp.id

-----------------------------------------------------------------------------
\* the position of the comment `id` in the input sequence
PositionIn(cs, id) == CHOOSE k \in DOMAIN cs : cs[k].id = id

\* the nodes of `siblings` follow one another as their comments do in cs
InInputOrder(cs, siblings) ==
    \A a, b \in DOMAIN siblings :
        a < b => PositionIn(cs, siblings[a].id) < PositionIn(cs, siblings[b].id)

\* C24: in the forest returned by buildCommentTree the roots follow one
\* another in the order of the input sequence, and so do the replies of every
\* node, at any depth.
C24_SiblingsInInputOrder ==
    Listed =>
        /\ InInputOrder(listing.paginatedComments, resp.body.comments)
        /\ \A node \in NodesOf(resp.body.comments) :
              InInputOrder(listing.paginatedComments, node.replies)

\* the forest has a node with two replies, which the input does not list in
\* the order of their identifiers
C24_Witness ==
    /\ Listed
    /\ \E node \in NodesOf(resp.body.comments) :
          /\ Len(node.replies) >= 2
          /\ node.replies[1].id > node.replies[2].id

-----------------------------------------------------------------------------
\* the identifiers of the comments of cs that satisfy Test, in input order
IdsWhere(cs, Test(_)) ==
    LET kept == SelectSeq(cs, Test)
    IN  [k \in DOMAIN kept |-> kept[k].id]

\* the children the algorithm gives every node of the lookup: the comments
\* whose parent identifier is the node's, in input order
ChildrenAsStated(cs, commentMap) ==
    \A id \in DOMAIN commentMap :
        commentMap[id].replies = IdsWhere(cs, LAMBDA c : c.parentId = id)

\* C25 as stated: the children of every node are the comments with that
\* parent, in input order, and the roots are the comments whose parent is
\* null or not in the lookup, in input order.
C25_AbsentParentBecomesRoot ==
    Listed =>
        /\ ChildrenAsStated(listing.paginatedComments, listing.commentMap)
        /\ listing.rootComments =
              IdsWhere(listing.paginatedComments,
                       LAMBDA c : \/ c.parentId = NoParent
                                  \/ c.parentId \notin DOMAIN listing.commentMap)

\* C25 amended: the children of every node are the comments with that
\* parent, in input order; the roots are the comments whose parent is null,
\* in input order; a comment whose parent is non-null and not in the lookup
\* is neither a root nor a child.
C25_AbsentParentIsSkipped ==
    Listed =>
        /\ ChildrenAsStated(listing.paginatedComments, listing.commentMap)
        /\ listing.rootComments =
              IdsWhere(listing.paginatedComments,
                       LAMBDA c : c.parentId = NoParent)
        /\ \A k \in DOMAIN listing.paginatedComments :
              LET c == listing.paginatedComments[k]
              IN  (c.parentId # NoParent
                   /\ c.parentId \notin DOMAIN listing.commentMap) =>
                     /\ c.id \notin Range(listing.rootComments)
                     /\ \A id \in DOMAIN listing.commentMap :
                           c.id \notin Range(listing.commentMap[id].replies)

\* the input held a parentless comment, a reply to it and a reply to a
\* comment that is not in the input
C25_Witness ==
    /\ Listed
    /\ Len(listing.rootComments) = 1
    /\ Len(listing.commentMap[listing.rootComments[1]].replies) = 1
    /\ \E k \in DOMAIN listing.paginatedComments :
          listing.paginatedComments[k].parentId = DanglingId

-----------------------------------------------------------------------------
\* the registry key under which an event is published: the topic of a topic
\* event, the recipient of a notification
KeyOf(ev) == IF ev.type = "notification" THEN ev.userId ELSE TopicOf(ev)

\* once socket s has disconnected it is in no room and the step delivers
\* nothing to it
DisconnectedIsGone(s) ==
    conn'[s] = "closed" => (rooms'[s] = {} /\ Delivered(s) = <<>>)

\* what the step delivers to socket s was published under a key s had joined
\* when the step began
DeliveredToJoined(s) ==
    \A k \in DOMAIN Delivered(s) : Subscribed(s, KeyOf(Delivered(s)[k]))

\* C26: under any interleaving of connect, join, disconnect and publish, a
\* disconnected socket is in no room and is delivered nothing afterwards, and
\* a publish delivers only to the sockets joined at that moment under the
\* event's key.
C26_RegistryConsistent ==
    [][\A s \in Sockets : DisconnectedIsGone(s) /\ DeliveredToJoined(s)]_vars

\* C27: a topic event (newComment, commentEdited, commentDeleted,
\* commentVoted) published for topic t is delivered to no socket that is not
\* joined to t.
C27_TopicScoped ==
    [][\A s \in Sockets : \A k \in DOMAIN Delivered(s) :
          Delivered(s)[k].type \in TopicEvents =>
              TopicOf(Delivered(s)[k]) \in rooms[s]]_vars

-----------------------------------------------------------------------------
\* no request is in flight
Quiescent == \A r \in Reqs : reqs[r].pc = "idle"

\* C28: whenever no request is in flight, every live vote row names a stored
\* comment.
C28_NoDanglingVoteRow ==
    Quiescent => \A v \in DOMAIN votes : votes[v].commentId \in DOMAIN comments

-----------------------------------------------------------------------------
\* C29: no two stored comments share an identifier: the comments of the
\* flat-file array have pairwise distinct ids, and an id the Firestore
\* collection hands out has never been handed out before.
C29_UniqueCommentIds ==
    /\ \A i, k \in DOMAIN fcomments :
          i # k => fcomments[i].id # fcomments[k].id
    /\ \A id \in DOMAIN lineage : id < nextId.comment

=============================================================================
